---- MODULE Spec2Model ----
(***************************************************************************)
(* A model of keyword_extractor.py: Document, KeywordMetadata,             *)
(* KeywordSummary and KeywordExtractor (fit, transform, fit_transform).    *)
(*                                                                         *)
(* A document text is the sequence of tokens the language model's          *)
(* tokeniser makes of it; a token is named by its text, and the attributes *)
(* the pipeline gives it (lemma_, is_stop, is_punct) are the operators     *)
(* Lemma, IsStop and IsPunct.  A word (a lemma, a keyword) is a sequence   *)
(* of characters, so that lower-casing and the scorer's own tokenisation   *)
(* are computed and not assumed.                                           *)
(***************************************************************************)
EXTENDS Naturals, Sequences, FiniteSets, Bags, TLC

VARIABLES
    max_features,   \* self.tfidf.max_features, set by __init__ from n_keywords
    tie_break,      \* which of two terms of equal count the scorer's sort puts
                    \* first: the one of lower ("first") or higher ("last") index
    keywords,       \* self.keywords
    documents,      \* the caller's list of Document values
    op,             \* the method that returned last: none, fit, transform, fit_transform
    kind,           \* how documents was passed to it: list or generator
    raised,         \* whether that call raised (the scorer's ValueError)
    before,         \* self.keywords when that call started
    fitted,         \* the list the most recent fit returned, as a bag: the
                    \* order of list(self.keywords) is left open
    summary,        \* KeywordSummary.data returned by that call
    fs_path,        \* the path given to Document.from_path
    fs_content,     \* the characters of the file at that path
    loaded          \* the Documents Document.from_path has returned

vars == <<max_features, tie_break, keywords, documents, op, kind, raised, before, fitted,
          summary, fs_path, fs_content, loaded>>

\* ------------------------------------------------------------------ bounds

\* Largest n_keywords an extractor is constructed with.
MaxKeywords == 2
\* Largest size of the caller's list, counting one for every document and
\* one for every token of its text.
MaxSize == 4
\* Largest number of characters in a file read by from_path.
MaxContentLen == 5

\* --------------------------------------------------- the language model

\* The token texts the documents are made of: an inflected, capitalised
\* word, a dotted name (one token for the tokeniser), a stop word and the
\* full stop.
Lexicon == {"Abs", "cd.e", "the", "."}

\* Token.lemma_
Lemma(token) ==
    CASE token = "Abs" -> <<"A", "b">>
      [] token = "cd.e" -> <<"c", "d", ".", "e">>
      [] token = "the" -> <<"t", "h", "e">>
      [] token = "." -> <<".">>

\* Token.is_stop
IsStop(token) == token = "the"

\* Token.is_punct
IsPunct(token) == token = "."

\* Sentencizer.punct_chars, as far as the lexicon goes
PunctChars == {"."}

\* str.lower, one character
LowerChar(c) == IF c = "A" THEN "a" ELSE c

\* str.lower
Lower(word) == [i \in 1..Len(word) |-> LowerChar(word[i])]

\* The sentencizer: a sentence starts at the first token, and at every token
\* that is no punctuation once a sentence-final character was seen.
RECURSIVE SentsFrom(_, _, _, _)
SentsFrom(text, i, current, seen_period) ==
    IF i > Len(text)
    THEN IF current = <<>> THEN <<>> ELSE <<current>>
    ELSE LET token == text[i] IN
         IF seen_period /\ ~IsPunct(token) /\ token \notin PunctChars
         THEN <<current>> \o SentsFrom(text, i + 1, <<token>>, FALSE)
         ELSE SentsFrom(text, i + 1, Append(current, token),
                        seen_period \/ token \in PunctChars)

\* Doc.sents of language_model(text)
Sents(text) == SentsFrom(text, 1, <<>>, FALSE)

\* As LemmatiseAndRemoveStops, without .lower().
LemmatiseKeepingCase(sentence) ==
    LET kept == SelectSeq(sentence, LAMBDA token : ~IsStop(token) /\ ~IsPunct(token))
    IN [i \in 1..Len(kept) |-> Lemma(kept[i])]

\* KeywordExtractor._lemmatise_and_remove_stops, as the list of what it yields
LemmatiseAndRemoveStops(sentence) ==
    LET kept == SelectSeq(sentence, LAMBDA token : ~IsStop(token) /\ ~IsPunct(token))
    IN [i \in 1..Len(kept) |-> Lower(Lemma(kept[i]))]

Range(s) == {s[i] : i \in DOMAIN s}

\* ------------------------------------------------------------ the scorer

\* \w of the scorer's token_pattern
IsWordChar(c) == c \notin {".", " "}

\* a match of \w\w+ : a maximal run of word characters, two or more
Emit(run) == IF Len(run) >= 2 THEN <<run>> ELSE <<>>

RECURSIVE WordsFrom(_, _, _)
WordsFrom(s, i, run) ==
    IF i > Len(s) THEN Emit(run)
    ELSE IF IsWordChar(s[i]) THEN WordsFrom(s, i + 1, Append(run, s[i]))
    ELSE Emit(run) \o WordsFrom(s, i + 1, <<>>)

\* TfidfVectorizer's analyser: lower-case, then every match of the token pattern
Analyse(s) == WordsFrom(Lower(s), 1, <<>>)

\* " ".join(token for token in sentence)
RECURSIVE Join(_)
Join(words) ==
    IF words = <<>> THEN <<>>
    ELSE IF Len(words) = 1 THEN Head(words)
    ELSE Head(words) \o <<" ">> \o Join(Tail(words))

RECURSIVE Flatten(_)
Flatten(seqs) == IF seqs = <<>> THEN <<>> ELSE Head(seqs) \o Flatten(Tail(seqs))

\* The strings fit hands to the scorer: one per sentence of every document.
ScorerInput(docs) ==
    LET sentences == Flatten([d \in 1..Len(docs) |-> Sents(docs[d].text)])
    IN [s \in 1..Len(sentences) |-> Join(LemmatiseAndRemoveStops(sentences[s]))]

\* All terms of the scorer's input, with repetitions.
Terms(raw) == Flatten([r \in 1..Len(raw) |-> Analyse(raw[r])])

\* The term's count summed over the scorer's input.
TermFrequency(term, raw) ==
    LET terms == Terms(raw) IN Cardinality({i \in DOMAIN terms : terms[i] = term})

\* The position of a character in the alphabet the terms are sorted by.
CharRank(c) ==
    CASE c = "a" -> 1 [] c = "b" -> 2 [] c = "c" -> 3 [] c = "d" -> 4
      [] c = "e" -> 5 [] c = "h" -> 6 [] c = "t" -> 7 [] OTHER -> 0

\* u < v for two terms: the order of the sorted vocabulary.
RECURSIVE Less(_, _)
Less(u, v) ==
    IF v = <<>> THEN FALSE
    ELSE IF u = <<>> THEN TRUE
    ELSE IF Head(u) = Head(v) THEN Less(Tail(u), Tail(v))
    ELSE CharRank(Head(u)) < CharRank(Head(v))

\* u comes before t in argsort(-tfs): a higher count, or an equal count and
\* the place the sort gives to ties.
Before(u, t, raw, tie) ==
    \/ TermFrequency(u, raw) > TermFrequency(t, raw)
    \/ /\ TermFrequency(u, raw) = TermFrequency(t, raw)
       /\ IF tie = "first" THEN Less(u, t) ELSE Less(t, u)

\* get_feature_names_out after a fit with max_features = n: the whole
\* vocabulary when it has at most n terms, otherwise the first n of the
\* terms sorted by falling count.
Features(n, raw, tie) ==
    LET vocabulary == Range(Terms(raw)) IN
    IF Cardinality(vocabulary) <= n THEN vocabulary
    ELSE {t \in vocabulary :
            Cardinality({u \in vocabulary : Before(u, t, raw, tie)}) < n}

\* -------------------------------------------------------------- iterables

\* The documents an iterable yields when it is traversed for the k-th time:
\* a list yields its items every time, a generator only the first time.
Yielded(how, docs, k) == IF how = "generator" /\ k > 1 THEN <<>> ELSE docs

\* The orders a set may be traversed in (list(set), for ... in set).
Orderings(S) ==
    {f \in [1..Cardinality(S) -> S] : \A i, j \in DOMAIN f : f[i] = f[j] => i = j}

\* ------------------------------------------------------------- transform

\* KeywordMetadata(keyword)
KeywordMetadata(keyword) ==
    [keyword |-> keyword, occurrences |-> 0, document_names |-> {}, sentences |-> <<>>]

\* As ScanSentence, with the document name added before the keyword is
\* looked for.
ScanSentenceNamingFirst(metadata, keyword, name, sentence) ==
    LET tokens == Range(LemmatiseAndRemoveStops(sentence))
        named == [metadata EXCEPT !.document_names = @ \cup {name}]
    IN IF keyword \notin tokens THEN named
       ELSE [named EXCEPT !.occurrences = @ + 1,
                          !.sentences = Append(@, sentence)]

\* As ScanSentence, with the tokens kept as a list and every token equal to
\* the keyword counted.
ScanSentenceCountingTokens(metadata, keyword, name, sentence) ==
    LET tokens == LemmatiseAndRemoveStops(sentence)
        hits == Cardinality({i \in DOMAIN tokens : tokens[i] = keyword})
    IN IF hits = 0 THEN metadata
       ELSE [metadata EXCEPT !.occurrences = @ + hits,
                             !.document_names = @ \cup {name},
                             !.sentences = Append(@, sentence)]

\* The body of transform's innermost loop, for one sentence of a document.
ScanSentence(metadata, keyword, name, sentence) ==
    LET tokens == Range(LemmatiseAndRemoveStops(sentence)) IN
    IF keyword \notin tokens THEN metadata
    ELSE [metadata EXCEPT !.occurrences = @ + 1,
                          !.document_names = @ \cup {name},
                          !.sentences = Append(@, sentence)]

RECURSIVE ScanSentences(_, _, _, _)
ScanSentences(metadata, keyword, name, sents) ==
    IF sents = <<>> THEN metadata
    ELSE ScanSentences(ScanSentence(metadata, keyword, name, Head(sents)),
                       keyword, name, Tail(sents))

\* for document in documents: for sentence in language_model(document.text).sents
RECURSIVE ScanDocuments(_, _, _)
ScanDocuments(metadata, keyword, docs) ==
    IF docs = <<>> THEN metadata
    ELSE ScanDocuments(
             ScanSentences(metadata, keyword, Head(docs).name, Sents(Head(docs).text)),
             keyword, Tail(docs))

\* As Store, keeping only the keywords that were found.
StoreIfFound(data, keyword, metadata) ==
    IF metadata.occurrences = 0 THEN data ELSE (keyword :> metadata) @@ data

\* summary[keyword] = metadata
Store(data, keyword, metadata) == (keyword :> metadata) @@ data

\* for keyword in self.keywords, in the given order; `traversal` counts the
\* traversals of the iterable, this one included.
RECURSIVE TransformLoop(_, _, _, _, _)
TransformLoop(order, how, docs, traversal, data) ==
    IF order = <<>> THEN data
    ELSE LET keyword == Head(order)
             metadata == ScanDocuments(KeywordMetadata(keyword), keyword,
                                       Yielded(how, docs, traversal))
         IN TransformLoop(Tail(order), how, docs, traversal + 1,
                          Store(data, keyword, metadata))

\* KeywordSummary.data of an extractor that holds no keyword
NoData == [k \in {} |-> KeywordMetadata(k)]

\* ------------------------------------------------------------------ state

Names == {"a.txt", "b.txt"}

RECURSIVE Size(_)
Size(docs) ==
    IF docs = <<>> THEN 0 ELSE 1 + Len(Head(docs).text) + Size(Tail(docs))

\* list(self.keywords), up to its order
ListOf(S) == SetToBag(S)

Texts(maxlen) == UNION {[1..len -> Lexicon] : len \in 0..maxlen}

Init ==
    /\ max_features \in 1..MaxKeywords
    /\ tie_break \in {"first", "last"}
    /\ keywords = {}
    /\ documents = <<>>
    /\ op = "none"
    /\ kind = "list"
    /\ raised = FALSE
    /\ before = {}
    /\ fitted = EmptyBag
    /\ summary = NoData
    /\ fs_path = <<>>
    /\ fs_content = <<>>
    /\ loaded = <<>>

fs == <<fs_path, fs_content, loaded>>

\* The caller adds Document(name, text) to the list it is building.
NewDocument ==
    /\ op = "none"
    /\ Size(documents) < MaxSize
    /\ \E name \in Names : \E text \in Texts(MaxSize - Size(documents) - 1) :
           documents' = Append(documents, [name |-> name, text |-> text])
    /\ UNCHANGED <<max_features, tie_break, keywords, op, kind, raised, before, fitted, summary, fs>>

\* The caller starts another list of documents.
NewCorpus ==
    /\ op = "none"
    /\ documents # <<>>
    /\ documents' = <<>>
    /\ UNCHANGED <<max_features, tie_break, keywords, op, kind, raised, before, fitted, summary, fs>>

\* The caller has taken what the call returned and goes on; the extractor
\* and the caller's list stay as they are.
Continue ==
    /\ op # "none"
    /\ op' = "none" /\ kind' = "list" /\ raised' = FALSE /\ before' = {}
    /\ summary' = NoData
    /\ UNCHANGED <<max_features, tie_break, keywords, documents, fitted, fs>>

\* KeywordExtractor.fit(documents)
Fit(how) ==
    LET raw == ScorerInput(Yielded(how, documents, 1)) IN
    /\ op = "none"
    /\ op' = "fit" /\ kind' = how /\ before' = keywords
    /\ summary' = NoData
    /\ IF Terms(raw) = <<>>
       THEN \* the scorer raises ValueError: empty vocabulary
            /\ raised' = TRUE
            /\ UNCHANGED <<keywords, fitted>>
       ELSE /\ raised' = FALSE
            /\ LET features == Features(max_features, raw, tie_break) IN
                   /\ keywords' = keywords \cup features
                   /\ fitted' = ListOf(keywords \cup features)
    /\ UNCHANGED <<max_features, tie_break, documents, fs>>

\* As Transform, with the scorer fitted again on the documents passed in.
TransformRefitting(how) ==
    LET raw == ScorerInput(Yielded(how, documents, 1))
        refitted == keywords \cup Features(max_features, raw, tie_break)
    IN
    /\ op = "none"
    /\ op' = "transform" /\ kind' = how /\ before' = keywords
    /\ raised' = FALSE
    /\ keywords' = refitted
    /\ \E order \in Orderings(refitted) :
           summary' = TransformLoop(order, how, documents, 2, NoData)
    /\ UNCHANGED <<max_features, tie_break, documents, fitted, fs>>

\* KeywordExtractor.transform(documents)
Transform(how) ==
    /\ op = "none"
    /\ op' = "transform" /\ kind' = how /\ before' = keywords
    /\ raised' = FALSE
    /\ \E order \in Orderings(keywords) :
           summary' = TransformLoop(order, how, documents, 1, NoData)
    /\ UNCHANGED <<max_features, tie_break, keywords, documents, fitted, fs>>

\* KeywordExtractor.fit_transform(documents): fit traverses the iterable
\* first, transform traverses it again for every keyword.
FitTransform(how) ==
    LET raw == ScorerInput(Yielded(how, documents, 1)) IN
    /\ op = "none"
    /\ op' = "fit_transform" /\ kind' = how /\ before' = keywords
    /\ IF Terms(raw) = <<>>
       THEN /\ raised' = TRUE
            /\ summary' = NoData
            /\ UNCHANGED <<keywords, fitted>>
       ELSE /\ raised' = FALSE
            /\ LET features == Features(max_features, raw, tie_break) IN
                   /\ keywords' = keywords \cup features
                   /\ fitted' = ListOf(keywords \cup features)
                   /\ \E order \in Orderings(keywords \cup features) :
                          summary' = TransformLoop(order, how, documents, 2, NoData)
    /\ UNCHANGED <<max_features, tie_break, documents, fs>>

Next ==
    \/ NewDocument
    \/ NewCorpus
    \/ Continue
    \/ \E how \in {"list", "generator"} : Fit(how)
    \/ \E how \in {"list", "generator"} : Transform(how)
    \/ \E how \in {"list", "generator"} : FitTransform(how)

Spec == Init /\ [][Next]_vars

\* ------------------------------------------------------ Document.from_path

\* The characters a file is made of: a letter, a space, line feed and
\* carriage return.
Chars == {"a", " ", "\n", "\r"}

\* str.isspace, as far as Chars goes
IsSpace(c) == c \in {" ", "\n", "\r"}

\* The paths from_path is given, as their components.
Paths == {<<"t.txt">>, <<"data", "t.txt">>, <<"data", "sub", "u.txt">>}

\* Path.name
PathName(path) == IF path = <<>> THEN "" ELSE path[Len(path)]

\* Path.read_text: the file is opened in text mode, where "\r\n" and a lone
\* "\r" are read as "\n".
RECURSIVE ReadText(_)
ReadText(content) ==
    IF content = <<>> THEN <<>>
    ELSE IF Head(content) = "\r"
    THEN IF Len(content) >= 2 /\ content[2] = "\n"
         THEN <<"\n">> \o ReadText(Tail(Tail(content)))
         ELSE <<"\n">> \o ReadText(Tail(content))
    ELSE <<Head(content)>> \o ReadText(Tail(content))

\* str.replace(old, new) for one-character old and new
Replace(s, old, new) == [i \in 1..Len(s) |-> IF s[i] = old THEN new ELSE s[i]]

\* str.lstrip
RECURSIVE LStrip(_)
LStrip(s) ==
    IF s # <<>> /\ IsSpace(Head(s)) THEN LStrip(Tail(s)) ELSE s

\* str.rstrip
RECURSIVE RStrip(_)
RStrip(s) ==
    IF s # <<>> /\ IsSpace(s[Len(s)]) THEN RStrip(SubSeq(s, 1, Len(s) - 1)) ELSE s

\* As Strip, on the left only.
StripLeft(s) == LStrip(s)

\* str.strip
Strip(s) == RStrip(LStrip(s))

\* Document.from_path(path), given the content of the file at path
DocumentFromPath(path, content) ==
    [name |-> PathName(path),
     text |-> Strip(Replace(ReadText(content), "\n", " "))]

Contents == UNION {[1..len -> Chars] : len \in 0..MaxContentLen}

InitFromPath ==
    /\ max_features = 1
    /\ tie_break = "first"
    /\ keywords = {}
    /\ documents = <<>>
    /\ op = "none"
    /\ kind = "list"
    /\ raised = FALSE
    /\ before = {}
    /\ fitted = EmptyBag
    /\ summary = NoData
    /\ fs_path \in Paths
    /\ fs_content \in Contents
    /\ loaded = <<>>

\* documents = [Document.from_path(path) ...] of main, for one path
FromPath ==
    /\ loaded = <<>>
    /\ loaded' = <<DocumentFromPath(fs_path, fs_content)>>
    /\ UNCHANGED <<max_features, tie_break, keywords, documents, op, kind, raised,
                   before, fitted, summary, fs_path, fs_content>>

NextFromPath == FromPath

SpecFromPath == InitFromPath /\ [][NextFromPath]_vars

\* ------------------------------------------------------------- properties

\* The positions <<d, s>> of the sentences of a list of documents.
Positions(docs) ==
    UNION {{<<d, s>> : s \in 1..Len(Sents(docs[d].text))} : d \in 1..Len(docs)}

SentenceAt(docs, p) == Sents(docs[p[1]].text)[p[2]]

\* The tokens of a sentence that normalise to the word.
Hits(sentence, word) ==
    {i \in DOMAIN sentence :
        /\ ~IsStop(sentence[i])
        /\ ~IsPunct(sentence[i])
        /\ Lower(Lemma(sentence[i])) = word}

\* The sentences whose normalised token set contains the word.
Matches(docs, word) == {p \in Positions(docs) : Hits(SentenceAt(docs, p), word) # {}}

\* Document order, then sentence order.
Precedes(p, q) == p[1] < q[1] \/ (p[1] = q[1] /\ p[2] <= q[2])

RankIn(P, p) == Cardinality({q \in P : Precedes(q, p)})

\* The normalised tokens of all sentences of a list of documents.
WordsOf(docs) ==
    UNION {Range(LemmatiseAndRemoveStops(SentenceAt(docs, p))) : p \in Positions(docs)}

Found(metadata) ==
    /\ metadata.occurrences >= 1
    /\ metadata.document_names # {}
    /\ metadata.sentences # <<>>

NotFound(metadata) ==
    /\ metadata.occurrences = 0
    /\ metadata.document_names = {}
    /\ metadata.sentences = <<>>

\* C1: once fit has returned the list K, the summary transform returns has
\* exactly the keywords of K as its keys, and the entry under key k has
\* keyword k.
C1_SummaryKeysAreFittedKeywords ==
    (op = "transform" /\ fitted # EmptyBag) =>
        /\ DOMAIN summary = BagToSet(fitted)
        /\ \A k \in DOMAIN summary : summary[k].keyword = k

\* A transform after a fit of two keywords, one of them in no sentence.
C1_Witness ==
    /\ op = "transform"
    /\ Cardinality(BagToSet(fitted)) = 2
    /\ \E k \in BagToSet(fitted) : Matches(documents, k) = {}
    /\ \E k \in BagToSet(fitted) : Matches(documents, k) # {}

\* C2: transform of a list of documents sets the occurrences of every
\* keyword to the number of sentences whose normalised token set contains
\* it, a sentence that holds it several times counting once, and its
\* sentences to the text of exactly those sentences, in document order and
\* then sentence order.
C2_OccurrencesCountSentences ==
    (op = "transform" /\ kind = "list") =>
        \A k \in before :
            /\ k \in DOMAIN summary
            /\ LET P == Matches(documents, k) IN
               /\ summary[k].occurrences = Cardinality(P)
               /\ Len(summary[k].sentences) = Cardinality(P)
               /\ \A p \in P :
                      summary[k].sentences[RankIn(P, p)] = SentenceAt(documents, p)

\* A transform of a list in which one sentence holds a keyword twice.
C2_Witness ==
    /\ op = "transform" /\ kind = "list"
    /\ \E k \in DOMAIN summary :
           /\ summary[k].occurrences = 1
           /\ \E p \in Matches(documents, k) :
                  Cardinality(Hits(SentenceAt(documents, p), k)) = 2

\* C3: transform of a list of documents reports for every keyword the names
\* of exactly the documents that have a sentence containing it.
C3_DocumentNamesAreContainingDocuments ==
    (op = "transform" /\ kind = "list") =>
        \A k \in before :
            /\ k \in DOMAIN summary
            /\ summary[k].document_names =
                   {documents[p[1]].name : p \in Matches(documents, k)}

\* A transform of two documents of different names, one with the keyword
\* and one without it.
C3_Witness ==
    /\ op = "transform" /\ kind = "list"
    /\ Len(documents) = 2
    /\ documents[1].name # documents[2].name
    /\ \E k \in DOMAIN summary :
           /\ \E p \in Matches(documents, k) : p[1] = 1
           /\ \A p \in Matches(documents, k) : p[1] # 2
           /\ summary[k].document_names = {documents[1].name}

\* C4: every call of fit returns at most n_keywords keywords, none of them
\* twice, and the extractor never holds more than n_keywords keywords.
\* Stated for the scorer whose sort keeps equal counts in index order, so
\* that no violation rests on how a tie is broken.
C4_AtMostNKeywords ==
    (tie_break = "first") =>
        /\ Cardinality(keywords) <= max_features
        /\ (op = "fit" /\ ~raised) =>
               /\ BagCardinality(fitted) <= max_features
               /\ \A k \in BagToSet(fitted) : fitted[k] = 1

\* C5: fit_transform on an extractor that holds no keyword returns, for a
\* list and for a generator alike, what fit and then transform return for
\* the list of the same documents on a fresh extractor.
C5_FitTransformIsFitThenTransform ==
    (op = "fit_transform" /\ before = {}) =>
        LET raw == ScorerInput(documents)
            features == Features(max_features, raw, tie_break)
        IN IF Terms(raw) = <<>> THEN raised
           ELSE /\ ~raised
                /\ summary = TransformLoop(CHOOSE order \in Orderings(features) : TRUE,
                                           "list", documents, 1, NoData)

\* C6: transform leaves the keywords of the extractor as they are; a keyword
\* that is in no sentence of the documents passed in is reported with no
\* occurrence, no document name and no sentence, and a word of those
\* documents that is no keyword is not reported.
C6_TransformDoesNotRefit ==
    (op = "transform") =>
        /\ keywords = before
        /\ \A k \in before :
               Matches(documents, k) = {} => k \in DOMAIN summary /\ NotFound(summary[k])
        /\ \A w \in WordsOf(documents) : w \notin before => w \notin DOMAIN summary

\* A transform of documents that hold none of the keywords, one of which is
\* the lemma of a word, and that hold a word that is no keyword.
C6_Witness ==
    /\ op = "transform"
    /\ \E k \in before : \E token \in Lexicon : Lower(Lemma(token)) = k
    /\ \A k \in before : Matches(documents, k) = {}
    /\ \E w \in WordsOf(documents) : w \notin before

\* The characters of the file as read_text returns them, from the first to
\* the last that is no white space.
Trimmed(s) ==
    LET inner == {i \in DOMAIN s : ~IsSpace(s[i])} IN
    IF inner = {} THEN <<>>
    ELSE LET lo == CHOOSE i \in inner : \A j \in inner : i <= j
             hi == CHOOSE i \in inner : \A j \in inner : j <= i
         IN SubSeq(s, lo, hi)

\* C7: from_path returns a document named by the last component of the path,
\* whose text is the content of the file without leading and trailing white
\* space and with one space for every newline; no newline is left in it.
C7_FromPathNameAndText ==
    (loaded # <<>>) =>
        LET inner == Trimmed(ReadText(fs_content)) IN
        /\ loaded[1].name = fs_path[Len(fs_path)]
        /\ Len(loaded[1].text) = Len(inner)
        /\ \A i \in DOMAIN inner :
               loaded[1].text[i] = IF inner[i] = "\n" THEN " " ELSE inner[i]
        /\ \A i \in DOMAIN loaded[1].text : loaded[1].text[i] # "\n"

\* A file in a directory, with white space at both ends and a newline
\* between two letters.
C7_Witness ==
    /\ loaded # <<>>
    /\ Len(fs_path) > 1
    /\ fs_content = <<" ", "a", "\n", "a", "\n">>
    /\ loaded[1].text = <<"a", " ", "a">>

\* C8: in every summary transform or fit_transform returns, the occurrences
\* of a keyword are the length of its sentences, and its document names are
\* empty exactly when its occurrences are 0.
C8_OccurrencesMatchSentences ==
    (op \in {"transform", "fit_transform"}) =>
        \A k \in DOMAIN summary :
            /\ summary[k].occurrences = Len(summary[k].sentences)
            /\ (summary[k].document_names = {}) <=> (summary[k].occurrences = 0)

\* A fit_transform that finds one keyword in a sentence that holds it twice
\* and another keyword nowhere.
C8_Witness ==
    /\ op = "fit_transform"
    /\ \E k \in DOMAIN summary :
           /\ summary[k].occurrences = 1
           /\ \E p \in Matches(documents, k) :
                  Cardinality(Hits(SentenceAt(documents, p), k)) = 2
    /\ \E k \in DOMAIN summary : summary[k].occurrences = 0

\* C9: what transform reports for a keyword is what an extractor holding
\* that keyword alone reports for the same iterable, whatever the other
\* keywords and the order they are traversed in.
C9_KeywordsAreIndependent ==
    (op = "transform") =>
        \A k \in DOMAIN summary :
            summary[k] = TransformLoop(<<k>>, kind, documents, 1, NoData)[k]

\* C10: every keyword of the summary that fit_transform returns for a list
\* of documents, on an extractor that held no keyword, has an occurrence, a
\* document name and a sentence.
C10_FittedKeywordsOccur ==
    (op = "fit_transform" /\ kind = "list" /\ before = {} /\ ~raised) =>
        \A k \in DOMAIN summary : Found(summary[k])

====
